---- MODULE Spec2Model ----
(***************************************************************************)
(* Model of src/emnist_dl2prod/utils.py: the EMNIST loader (load_emnist,   *)
(* download_emnist), the label mapper (get_emnist_mapping), the            *)
(* single-query evaluator (eval_serving_performance) and the throughput    *)
(* driver (eval_throughput).  One caller runs one function at a time; the  *)
(* file system, the archive contents, the endpoint's responses and the     *)
(* wall clock are the environment and are chosen nondeterministically.     *)
(***************************************************************************)
EXTENDS Integers, Sequences, FiniteSets, TLC

(* ------------------------------ bounds --------------------------------- *)
MaxN == 2            \* samples per split of an archive
MaxExamples == 2     \* n_examples passed to eval_serving_performance
MaxScoreLen == 2     \* length of a score vector returned by the endpoint
MaxDuration == 1     \* duration passed to eval_throughput
MaxBatch == 2        \* batch_size passed to eval_throughput
MaxPerTick == 2      \* requests that complete within one clock reading
MaxScore == 1        \* greatest score returned by the endpoint
MaxLatency == 1      \* greatest latency measured, in microseconds
MaxStart == 1        \* clock reading when eval_throughput is called

Scores == 0..MaxScore
Latencies == 0..MaxLatency
Starts == 0..MaxStart

\* labels stored in an archive: two classes tell a hit from a miss
Labels == {0, 1}
\* n_print_examples: nothing shown, or the first example shown
PrintCounts == {0, 1}

(* -------------------------- program constants -------------------------- *)
EMNIST_FILENAME == "emnist-byclass.mat"
Side == 28
Pixels == 784
NoValue == [kind |-> "none"]

Min(a, b) == IF a <= b THEN a ELSE b
Max(a, b) == IF a >= b THEN a ELSE b

(* ------------------------- get_emnist_mapping -------------------------- *)
\* Python's chr() on the printable ASCII codes 32..126 (code 96, the grave
\* accent, cannot be written in a TLA+ string and is spelled out)
AsciiTable ==
  << " ", "!", "\"", "#", "$", "%", "&", "'", "(", ")", "*", "+", ",", "-", ".", "/",
     "0", "1", "2", "3", "4", "5", "6", "7", "8", "9", ":", ";", "<", "=", ">", "?",
     "@", "A", "B", "C", "D", "E", "F", "G", "H", "I", "J", "K", "L", "M", "N", "O",
     "P", "Q", "R", "S", "T", "U", "V", "W", "X", "Y", "Z", "[", "\\", "]", "^", "_",
     "grave", "a", "b", "c", "d", "e", "f", "g", "h", "i", "j", "k", "l", "m", "n", "o",
     "p", "q", "r", "s", "t", "u", "v", "w", "x", "y", "z", "{", "|", "}", "~" >>

chr(value) == AsciiTable[value - 31]

\* list(range(lo, hi))
range(lo, hi) == [i \in 1..Max(hi - lo, 0) |-> lo + i - 1]

ascii_digits == range(48, 58)
ascii_uppercase_letters_shifted == range(66, 66 + 26)
ascii_uppercase_letters == range(65, 65 + 26)
ascii_lowercase_letters == range(97, 97 + 26)

digits == [i \in DOMAIN ascii_digits |-> chr(ascii_digits[i])]
uppercase_letters ==
  [i \in DOMAIN ascii_uppercase_letters |-> chr(ascii_uppercase_letters[i])]
lowercase_letters ==
  [i \in DOMAIN ascii_lowercase_letters |-> chr(ascii_lowercase_letters[i])]

\* dict(zip(keys, values)): zip stops at the shorter sequence
dict_zip(keys, values) ==
  LET n == Min(Len(keys), Len(values))
  IN  [k \in {keys[i] : i \in 1..n} |->
         values[CHOOSE i \in 1..n : keys[i] = k /\ \A j \in (i+1)..n : keys[j] # k]]

get_emnist_mapping ==
  dict_zip(range(0, 10 + 2 * 26), digits \o uppercase_letters \o lowercase_letters)

(* ----------------------------- load_emnist ----------------------------- *)
\* label vectors of n rows
LabelVectors(n) == [0..(n - 1) -> Labels]

\* what an archive file holds: two splits, each a pixel matrix of n rows of
\* 784 values and a label vector of n rows.  Pixel j of sample i of a split
\* is tagged i * 784 + j so that a reshaped image shows where each of its
\* pixels came from.
Archives ==
  UNION { UNION { [ntrain : {a}, ytrain : LabelVectors(a),
                   ntest : {b}, ytest : LabelVectors(b)] : b \in 0..MaxN }
          : a \in 0..MaxN }

PixelTag(i, j) == i * Pixels + j

\* the array loadmat yields for an (n, 784) matrix: MATLAB stores matrices
\* column-major, so element (i, j) lies at offset i + n * j of the buffer
MatArray(n) ==
  [shape |-> <<n, Pixels>>, strides |-> <<1, n>>]

\* numpy's contiguity flags for a 2-d array (dimensions of extent 1 put no
\* constraint on their stride; an array without elements has both flags)
C_CONTIGUOUS(a) ==
  \/ a.shape[1] = 0 \/ a.shape[2] = 0
  \/ /\ (a.shape[2] # 1 => a.strides[2] = 1)
     /\ (a.shape[1] # 1 => a.strides[1] = a.shape[2])

F_CONTIGUOUS(a) ==
  \/ a.shape[1] = 0 \/ a.shape[2] = 0
  \/ /\ (a.shape[1] # 1 => a.strides[1] = 1)
     /\ (a.shape[2] # 1 => a.strides[2] = a.shape[1])

\* order='A': Fortran index order if the array is Fortran contiguous (and
\* not also C contiguous) in memory, C index order otherwise
OrderA(a) == IF F_CONTIGUOUS(a) /\ ~C_CONTIGUOUS(a) THEN "F" ELSE "C"

\* x.reshape((x.shape[0], 28, 28), order='A') of the (n, 784) array x:
\* element (i, r, c) of the result is the element of x with the same rank in
\* the chosen index order
reshape_images(a) ==
  LET n == a.shape[1]
      order == OrderA(a)
      src(i, r, c) ==
        IF order = "F"
        THEN LET rank == i + n * (r + Side * c)
             IN  <<rank % n, rank \div n>>
        ELSE LET rank == (i * Side + r) * Side + c
             IN  <<rank \div Pixels, rank % Pixels>>
  IN  [i \in 0..(n - 1) |->
        [r \in 0..(Side - 1) |->
          [c \in 0..(Side - 1) |-> PixelTag(src(i, r, c)[1], src(i, r, c)[2])]]]

x_train_of(arch) == reshape_images(MatArray(arch.ntrain))
x_test_of(arch) == reshape_images(MatArray(arch.ntest))

\* the value load_emnist returns (the raw mapping table is not modelled)
LoadResult(arch) ==
  [kind |-> "arrays",
   x_train |-> x_train_of(arch), y_train |-> arch.ytrain,
   x_test |-> x_test_of(arch), y_test |-> arch.ytest]

(* ----------------------- endpoint and its answers ---------------------- *)
ScoreVectors ==
  UNION { [1..len -> Scores] : len \in 1..MaxScoreLen }

\* what one request can come back with: a score vector, a JSON object
\* without the 'predictions' field (Protocol A only: Protocol B returns the
\* tensor itself), or a failure of the transport
Responses(use_graphpipe) ==
  { [kind |-> "scores", scores |-> v] : v \in ScoreVectors }
  \cup { [kind |-> "transport_error"] }
  \cup (IF use_graphpipe THEN {} ELSE { [kind |-> "no_predictions"] })

\* the driver does not look into the scores: to it every score vector is
\* the same answer
ResponseKinds(use_graphpipe) ==
  { r \in Responses(use_graphpipe) : r.kind = "scores" => r.scores = <<0>> }

Protocol(use_graphpipe) == IF use_graphpipe THEN "B" ELSE "A"

\* np.argmax: scan from the left, a later element wins only if strictly
\* greater; the result is 0-based
RECURSIVE argmax_scan_last(_, _, _)
argmax_scan_last(v, i, best) ==
  IF i > Len(v) THEN best
  ELSE argmax_scan_last(v, i + 1, IF v[i] >= v[best] THEN i ELSE best)

RECURSIVE argmax_scan(_, _, _)
argmax_scan(v, i, best) ==
  IF i > Len(v) THEN best
  ELSE argmax_scan(v, i + 1, IF v[i] > v[best] THEN i ELSE best)

argmax(v) == argmax_scan(v, 2, 1) - 1

slice_wrapping(lo, hi, n) ==
  [i \in 1..(IF n > 0 THEN Max(hi - lo, 0) ELSE 0) |-> (lo + i - 1) % n]

\* a[lo:hi] on an array of n rows, as the sequence of row numbers it holds
slice(lo, hi, n) ==
  LET norm(k) == IF k < 0 THEN Max(k + n, 0) ELSE Min(k, n)
      first == norm(lo)
      last == norm(hi)
  IN  [i \in 1..Max(last - first, 0) |-> first + i - 1]

\* np.random.choice(np.arange(n), k, replace=False): the sequences one seed
\* or another can produce
Choices(n, k) ==
  { s \in [1..k -> 0..(n - 1)] : \A i, j \in 1..k : i # j => s[i] # s[j] }

MaxClock == MaxStart + MaxDuration + 2

(* -------------------------------- state -------------------------------- *)
VARIABLES
  pc,          \* position of the caller
  fs,          \* emnist_folder_path: "nofolder", "nofile" or "present"
  args,        \* function called and its arguments
  events,      \* the loading and sampling steps of the running call, in order
  outcome,     \* how the call ended: value returned or exception raised
  n_eval,      \* x_eval.shape[0] / data.shape[0]
  y_eval,      \* labels of the chosen split
  eval_img_indices,
  idx,         \* position of the evaluator's loop
  acc,
  durations,
  printed,     \* examples shown so far
  sent,        \* requests sent by the running call, in order
  received,    \* the responses handled by the running call, in order
  num_reqs,
  end_time,
  clock,       \* time.time()
  per_tick,    \* requests completed since the clock last advanced
  late         \* requests completed after end_time

vars == <<pc, fs, args, events, outcome, n_eval, y_eval, eval_img_indices, idx,
          acc, durations, printed, sent, received, num_reqs, end_time, clock,
          per_tick, late>>

NoArgs ==
  [op |-> "none", download |-> FALSE, n_examples |-> 0, n_print_examples |-> 0,
   use_graphpipe |-> FALSE, dataset |-> "test", duration |-> 0, batch_size |-> 0]

Raise(error) == [kind |-> "raise", error |-> error]

Init ==
  /\ pc = "idle"
  /\ fs \in {"nofolder", "nofile", "present"}
  /\ args = NoArgs
  /\ events = <<>>
  /\ outcome = NoValue
  /\ n_eval = 0
  /\ y_eval = <<>>
  /\ eval_img_indices = <<>>
  /\ idx = 0
  /\ acc = 0
  /\ durations = <<>>
  /\ printed = 0
  /\ sent = <<>>
  /\ received = <<>>
  /\ num_reqs = 0
  /\ end_time = 0
  /\ clock = 0
  /\ per_tick = 0
  /\ late = 0

\* a call starts from a caller that runs nothing; its locals start afresh
Enter(a, start) ==
  /\ pc = "idle"
  /\ args' = a
  /\ pc' = start
  /\ events' = <<>>
  /\ n_eval' = 0
  /\ y_eval' = <<>>
  /\ eval_img_indices' = <<>>
  /\ idx' = 0
  /\ acc' = 0
  /\ durations' = <<>>
  /\ printed' = 0
  /\ sent' = <<>>
  /\ received' = <<>>
  /\ num_reqs' = 0
  /\ end_time' = 0
  /\ per_tick' = 0
  /\ late' = 0

Locals == <<n_eval, y_eval, eval_img_indices, idx, acc, durations, printed,
            sent, received, num_reqs, end_time, per_tick, late>>

Finish(o) ==
  /\ pc' = "done"
  /\ outcome' = o

\* the caller takes what the call ended with; the call's locals are gone
CallEnds ==
  /\ pc = "done"
  /\ pc' = "idle"
  /\ args' = NoArgs
  /\ events' = <<>>
  /\ outcome' = NoValue
  /\ n_eval' = 0
  /\ y_eval' = <<>>
  /\ eval_img_indices' = <<>>
  /\ idx' = 0
  /\ acc' = 0
  /\ durations' = <<>>
  /\ printed' = 0
  /\ sent' = <<>>
  /\ received' = <<>>
  /\ num_reqs' = 0
  /\ end_time' = 0
  /\ clock' = 0
  /\ per_tick' = 0
  /\ late' = 0
  /\ UNCHANGED fs

(* ----------------------------- load_emnist ----------------------------- *)
Call_load_emnist ==
  \E download \in BOOLEAN :
    /\ Enter([NoArgs EXCEPT !.op = "load_emnist", !.download = download],
             "load_check")
    /\ outcome' = NoValue
    /\ UNCHANGED <<fs, clock>>

\* lines 66-73: what follows the test for the folder and the file
load_branch_skipping(present, download) ==
  IF present \/ download THEN "load_parse" ELSE "raise"
load_branch(present, download) ==
  IF present THEN "load_parse"
  ELSE IF download THEN "download"
  ELSE "raise"

\* lines 64-73: the test for the folder and the file; what the test saw is
\* noted in events
load_check ==
  /\ pc = "load_check"
  /\ events' = Append(events, IF fs = "present" THEN "found" ELSE "missing")
  /\ LET branch == load_branch(fs = "present", args.download)
     IN  IF branch = "raise"
         THEN Finish([kind |-> "raise", error |-> "FileNotFoundError",
                      raised_by |-> "load_emnist",
                      folder |-> "emnist_folder_path",
                      file |-> EMNIST_FILENAME])
         ELSE /\ pc' = branch
              /\ UNCHANGED outcome
  /\ UNCHANGED <<fs, args, clock>>
  /\ UNCHANGED Locals

\* download_emnist: the folder is made, then the archive is fetched,
\* extracted and moved; the fetch or the extraction may fail, and the zip
\* may or may not hold emnist-byclass.mat
download_emnist ==
  /\ pc = "download"
  /\ events' = Append(events, "acquire")
  /\ \E result \in {"file", "nofile", "ConnectionError", "BadZipFile"} :
       IF result = "file"
       THEN /\ fs' = "present"
            /\ pc' = "load_parse"
            /\ UNCHANGED outcome
       ELSE IF result = "nofile"
       THEN /\ fs' = "nofile"
            /\ pc' = "load_parse"
            /\ UNCHANGED outcome
       ELSE /\ fs' = "nofile"
            /\ Finish(Raise(result))
  /\ UNCHANGED <<args, clock>>
  /\ UNCHANGED Locals

\* line 75 when the file is not there after all
loadmat_fails ==
  /\ pc = "load_parse"
  /\ fs # "present"
  /\ Finish(Raise("IOError"))
  /\ UNCHANGED <<fs, args, events, clock>>
  /\ UNCHANGED Locals

\* lines 75-92 for a direct call
load_parse ==
  /\ pc = "load_parse"
  /\ args.op = "load_emnist"
  /\ fs = "present"
  /\ events' = Append(events, "parse")
  /\ \E arch \in Archives :
       Finish([kind |-> "return", value |-> LoadResult(arch)])
  /\ UNCHANGED <<fs, args, clock>>
  /\ UNCHANGED Locals

(* -------------------------- get_emnist_mapping ------------------------- *)
Call_get_emnist_mapping ==
  /\ Enter([NoArgs EXCEPT !.op = "get_emnist_mapping"], "done")
  /\ outcome' = [kind |-> "return", value |-> get_emnist_mapping]
  /\ UNCHANGED <<fs, clock>>

(* ---------------------- eval_serving_performance ----------------------- *)
\* line 205: load_emnist is called with its default download=False
Call_eval_serving_performance ==
  \E n_examples \in 0..MaxExamples, n_print_examples \in PrintCounts,
     use_graphpipe \in BOOLEAN, dataset \in {"train", "test"} :
    /\ Enter([NoArgs EXCEPT !.op = "eval_serving_performance",
                            !.n_examples = n_examples,
                            !.n_print_examples = n_print_examples,
                            !.use_graphpipe = use_graphpipe,
                            !.dataset = dataset],
             "load_check")
    /\ outcome' = NoValue
    /\ UNCHANGED <<fs, clock>>

\* lines 205-214: the archive is parsed and the split chosen
esp_setup ==
  /\ pc = "load_parse"
  /\ args.op = "eval_serving_performance"
  /\ fs = "present"
  /\ events' = Append(events, "parse")
  /\ \E arch \in Archives :
       IF args.dataset = "train"
       THEN n_eval' = arch.ntrain /\ y_eval' = arch.ytrain
       ELSE n_eval' = arch.ntest /\ y_eval' = arch.ytest
  /\ acc' = 0
  /\ durations' = <<>>
  /\ pc' = "esp_sample"
  /\ UNCHANGED <<fs, args, outcome, eval_img_indices, idx, printed, sent, received,
                 num_reqs, end_time, clock, per_tick, late>>

\* lines 216-219: choice without replacement fails when asked for more
\* indices than the split has; on an empty split it fails whatever is asked
\* in the numpy releases that refuse an empty population, and yields the
\* empty sample in the others
esp_sample ==
  /\ pc = "esp_sample"
  /\ \/ /\ args.n_examples > n_eval \/ n_eval = 0
        /\ Finish(Raise("ValueError"))
        /\ UNCHANGED <<eval_img_indices, events>>
     \/ /\ args.n_examples <= n_eval
        /\ eval_img_indices' \in Choices(n_eval, args.n_examples)
        /\ events' = Append(events, "sample")
        /\ pc' = "esp_loop"
        /\ UNCHANGED outcome
  /\ idx' = 0
  /\ UNCHANGED <<fs, args, n_eval, y_eval, acc, durations, printed,
                 sent, received, num_reqs, end_time, clock, per_tick, late>>

\* lines 221-233: the next sampled image goes out by the protocol chosen
esp_send ==
  /\ pc = "esp_loop"
  /\ idx < Len(eval_img_indices)
  /\ sent' = Append(sent, [index |-> eval_img_indices[idx + 1],
                           protocol |-> Protocol(args.use_graphpipe)])
  /\ pc' = "esp_wait"
  /\ UNCHANGED <<fs, args, events, outcome, n_eval, y_eval, eval_img_indices,
                 idx, acc, durations, printed, received, num_reqs, end_time, clock,
                 per_tick, late>>

\* lines 230, 293: .json()['predictions'] fails on a body without the
\* field; Protocol B hands the tensor over as it is
read_response_lenient(r) ==
  IF r.kind = "no_predictions" THEN [ok |-> TRUE, scores |-> <<0>>]
  ELSE [ok |-> TRUE, scores |-> r.scores]
read_response(r) ==
  IF r.kind = "no_predictions" THEN [ok |-> FALSE, error |-> "KeyError"]
  ELSE [ok |-> TRUE, scores |-> r.scores]

\* the lowest index that holds the greatest score
LowestBest(v) ==
  CHOOSE i \in 0..(Len(v) - 1) :
    /\ \A j \in 0..(Len(v) - 1) : v[j + 1] <= v[i + 1]
    /\ \A j \in 0..(i - 1) : v[j + 1] < v[i + 1]

\* what is kept of a response once handled: its kind, for a score vector the
\* lowest index of its greatest score, and the latency measured for it
Handled(r, elapsed) ==
  [kind |-> r.kind,
   lowest_best |-> IF r.kind = "scores" THEN LowestBest(r.scores) ELSE -1,
   elapsed |-> elapsed]

accIncrement(pred, label) == IF pred = label THEN 1 ELSE 0

\* line 235: the latency joins the list (the code stores the whole number
\* of microseconds divided by 1000; the list here keeps the microseconds)
durationsAppendFirst(d, elapsed) == <<elapsed>> \o d
durationsAppend(d, elapsed) == Append(d, elapsed)

\* lines 228-243: the response is read, the latency recorded (elapsed is the
\* whole number of microseconds measured), the prediction scored and, for
\* the first n_print_examples, shown
esp_receive ==
  /\ pc = "esp_wait"
  /\ \E r \in Responses(args.use_graphpipe), elapsed \in Latencies :
       /\ received' = Append(received, Handled(r, elapsed))
       /\ IF r.kind = "transport_error"
          THEN /\ Finish(Raise("ConnectionError"))
               /\ UNCHANGED <<durations, acc, printed, idx>>
          ELSE IF ~read_response(r).ok
          THEN /\ Finish(Raise(read_response(r).error))
               /\ UNCHANGED <<durations, acc, printed, idx>>
          ELSE LET pred == argmax(read_response(r).scores)
                   label == y_eval[eval_img_indices[idx + 1]]
               IN  /\ durations' = durationsAppend(durations, elapsed)
                   /\ acc' = acc + accIncrement(pred, label)
                   /\ IF idx < args.n_print_examples
                      THEN IF pred \in DOMAIN get_emnist_mapping
                           THEN /\ printed' = printed + 1
                                /\ idx' = idx + 1
                                /\ pc' = "esp_loop"
                                /\ UNCHANGED outcome
                           ELSE /\ Finish(Raise("KeyError"))
                                /\ UNCHANGED <<printed, idx>>
                      ELSE /\ idx' = idx + 1
                           /\ pc' = "esp_loop"
                           /\ UNCHANGED <<outcome, printed>>
  /\ UNCHANGED <<fs, args, events, n_eval, y_eval, eval_img_indices, sent,
                 num_reqs, end_time, clock, per_tick, late>>

\* a / b of Python: division by zero raises, otherwise the exact quotient,
\* kept as the pair of its terms
DivideGuarded(a, b) ==
  IF b = 0 THEN [ok |-> TRUE, num |-> 0, den |-> 1]
  ELSE [ok |-> TRUE, num |-> a, den |-> b]
Divide(a, b) ==
  IF b = 0 THEN [ok |-> FALSE, num |-> a, den |-> b]
  ELSE [ok |-> TRUE, num |-> a, den |-> b]

\* lines 245-248: the accuracy is printed and the latencies returned
esp_finish ==
  /\ pc = "esp_loop"
  /\ idx >= Len(eval_img_indices)
  /\ LET accuracy == Divide(acc, args.n_examples)
     IN  IF ~accuracy.ok
         THEN Finish(Raise("ZeroDivisionError"))
         ELSE Finish([kind |-> "return", value |-> durations,
                      accuracy |-> accuracy])
  /\ UNCHANGED <<fs, args, events, clock>>
  /\ UNCHANGED Locals

(* --------------------------- eval_throughput --------------------------- *)
\* line 272: load_emnist is called with its default download=False
Call_eval_throughput ==
  \E duration \in 0..MaxDuration, batch_size \in 0..MaxBatch,
     use_graphpipe \in BOOLEAN, dataset \in {"train", "test"},
     now \in Starts :
    /\ Enter([NoArgs EXCEPT !.op = "eval_throughput",
                            !.duration = duration,
                            !.batch_size = batch_size,
                            !.use_graphpipe = use_graphpipe,
                            !.dataset = dataset],
             "load_check")
    /\ outcome' = NoValue
    /\ clock' = now
    /\ UNCHANGED fs

\* lines 272-285 (296): the split is loaded and the end timestamp fixed
tp_setup ==
  /\ pc = "load_parse"
  /\ args.op = "eval_throughput"
  /\ fs = "present"
  /\ events' = Append(events, "parse")
  /\ \E arch \in Archives :
       n_eval' = IF args.dataset = "train" THEN arch.ntrain ELSE arch.ntest
  /\ num_reqs' = 0
  /\ end_time' = clock + args.duration
  /\ pc' = "tp_loop"
  /\ UNCHANGED <<fs, args, outcome, y_eval, eval_img_indices, idx, acc,
                 durations, printed, sent, received, clock, per_tick, late>>

\* lines 286, 297: the loop's test
in_time_lenient(now, end) == now <= end + 1
in_time(now, end) == now <= end

\* lines 286-292 (297-298): the clock is read; within the time the next
\* batch is cut and sent
tp_send ==
  /\ pc = "tp_loop"
  /\ in_time(clock, end_time)
  /\ per_tick < MaxPerTick
  /\ sent' = Append(sent, [batch |-> slice(num_reqs, num_reqs + args.batch_size,
                                          n_eval),
                           protocol |-> Protocol(args.use_graphpipe)])
  /\ pc' = "tp_wait"
  /\ UNCHANGED <<fs, args, events, outcome, n_eval, y_eval, eval_img_indices,
                 idx, acc, durations, printed, received, num_reqs, end_time, clock,
                 per_tick, late>>

num_reqsCountsOne(n, batch_size) == n + 1
num_reqsNext(n, batch_size) == n + batch_size

\* lines 291-294 (298-299): the response is read and the counter advanced
tp_receive ==
  /\ pc = "tp_wait"
  /\ \E r \in ResponseKinds(args.use_graphpipe) :
       /\ received' = Append(received, Handled(r, 0))
       /\ IF r.kind = "transport_error"
          THEN /\ Finish(Raise("ConnectionError"))
               /\ UNCHANGED <<num_reqs, per_tick, late>>
          ELSE IF ~read_response(r).ok
          THEN /\ Finish(Raise(read_response(r).error))
               /\ UNCHANGED <<num_reqs, per_tick, late>>
          ELSE /\ num_reqs' = num_reqsNext(num_reqs, args.batch_size)
               /\ per_tick' = per_tick + 1
               /\ late' = IF clock > end_time THEN late + 1 ELSE late
               /\ pc' = "tp_loop"
               /\ UNCHANGED outcome
  /\ UNCHANGED <<fs, args, events, n_eval, y_eval, eval_img_indices, idx, acc,
                 durations, printed, sent, end_time, clock>>

\* lines 286 (297), 301-308: the clock read is past the end; the totals are
\* returned
tp_finish ==
  /\ pc = "tp_loop"
  /\ ~in_time(clock, end_time)
  /\ LET reqs_per_second == Divide(num_reqs, args.duration)
     IN  IF ~reqs_per_second.ok
         THEN Finish(Raise("ZeroDivisionError"))
         ELSE Finish([kind |-> "return", value |-> num_reqs,
                      reqs_per_second |-> reqs_per_second])
  /\ UNCHANGED <<fs, args, events, clock>>
  /\ UNCHANGED Locals

\* time passes while the driver runs
Tick ==
  /\ pc \in {"tp_loop", "tp_wait"}
  /\ clock < MaxClock
  /\ clock' = clock + 1
  /\ per_tick' = 0
  /\ UNCHANGED <<pc, fs, args, events, outcome, n_eval, y_eval,
                 eval_img_indices, idx, acc, durations, printed, sent, received,
                 num_reqs, end_time, late>>

(* ---------------------------- specification ---------------------------- *)
Next ==
  \/ Call_load_emnist
  \/ load_check
  \/ download_emnist
  \/ loadmat_fails
  \/ load_parse
  \/ Call_get_emnist_mapping
  \/ Call_eval_serving_performance
  \/ esp_setup
  \/ esp_sample
  \/ esp_send
  \/ esp_receive
  \/ esp_finish
  \/ Call_eval_throughput
  \/ tp_setup
  \/ tp_send
  \/ tp_receive
  \/ tp_finish
  \/ Tick
  \/ CallEnds

Spec == Init /\ [][Next]_vars

\* the driver alone, with the scheduling it runs under: the single thread
\* goes on whenever it can, every request comes back, and time passes
NextThroughput ==
  \/ Call_eval_throughput
  \/ load_check
  \/ tp_setup
  \/ tp_send
  \/ tp_receive
  \/ tp_finish
  \/ Tick
  \/ CallEnds

SpecThroughput ==
  /\ Init
  /\ [][NextThroughput]_vars
  /\ WF_vars(load_check)
  /\ WF_vars(tp_setup)
  /\ WF_vars(tp_send)
  /\ WF_vars(tp_receive)
  /\ WF_vars(tp_finish)
  /\ WF_vars(Tick)

(* ------------------------------- claims -------------------------------- *)
Count(seq, e) == Cardinality({i \in DOMAIN seq : seq[i] = e})
Positions(seq, e) == {i \in DOMAIN seq : seq[i] = e}

\* C1: in a call of load_emnist whose test found the folder or the file
\* missing, with download False the call ends at once with the not-found
\* error that names the folder and emnist-byclass.mat, nothing acquired and
\* nothing parsed; with download True download_emnist runs exactly once and
\* before any parse; when the test found both, nothing is acquired.
C1_AcquisitionFollowsTheTest ==
  (Len(events) >= 1) =>
    /\ (events[1] = "missing" /\ ~args.download) =>
         /\ pc = "done"
         /\ events = <<"missing">>
         /\ outcome.kind = "raise"
         /\ outcome.error = "FileNotFoundError"
         /\ outcome.raised_by = "load_emnist"
         /\ outcome.folder = "emnist_folder_path"
         /\ outcome.file = "emnist-byclass.mat"
    /\ (events[1] = "missing" /\ args.download) =>
         /\ (pc # "download" => Count(events, "acquire") = 1)
         /\ (pc = "download" => Count(events, "acquire") = 0)
         /\ \A i \in Positions(events, "parse") :
              \E j \in Positions(events, "acquire") : j < i
    /\ (events[1] = "found") => Count(events, "acquire") = 0

C1_Witness ==
  /\ args.op = "load_emnist"
  /\ args.download
  /\ pc = "done"
  /\ events = <<"missing", "acquire", "parse">>
  /\ outcome.kind = "return"

Alphabet62 ==
  << "0", "1", "2", "3", "4", "5", "6", "7", "8", "9",
     "A", "B", "C", "D", "E", "F", "G", "H", "I", "J", "K", "L", "M",
     "N", "O", "P", "Q", "R", "S", "T", "U", "V", "W", "X", "Y", "Z",
     "a", "b", "c", "d", "e", "f", "g", "h", "i", "j", "k", "l", "m",
     "n", "o", "p", "q", "r", "s", "t", "u", "v", "w", "x", "y", "z" >>

MappingReturned ==
  /\ args.op = "get_emnist_mapping"
  /\ pc = "done"
  /\ outcome.kind = "return"

\* C2: every call of get_emnist_mapping returns the same mapping: its keys
\* are exactly 0..61, no two keys share a character, and key k maps to the
\* k-th character of '0'-'9', 'A'-'Z', 'a'-'z'.
C2_MappingIsTheAlphabet ==
  MappingReturned =>
    LET m == outcome.value
    IN  /\ DOMAIN m = 0..61
        /\ \A j, k \in DOMAIN m : j # k => m[j] # m[k]
        /\ \A k \in 0..61 : m[k] = Alphabet62[k + 1]
        /\ m[0] = "0" /\ m[9] = "9" /\ m[10] = "A" /\ m[35] = "Z"
        /\ m[36] = "a" /\ m[61] = "z"

C2_Witness ==
  /\ MappingReturned
  /\ Cardinality(DOMAIN outcome.value) = 62
  /\ outcome.value[10] = "A"

LoadReturned ==
  /\ args.op = "load_emnist"
  /\ pc = "done"
  /\ outcome.kind = "return"

ColumnMajor(x, y) ==
  /\ DOMAIN x = DOMAIN y
  /\ \A n \in DOMAIN x : \A r, c \in 0..(Side - 1) :
       x[n][r][c] = PixelTag(n, r + Side * c)

\* C3: in what load_emnist returns, for the train and the test split, image
\* n holds at row r, column c the flat pixel r + 28 * c of sample n, and the
\* samples are as many and in the order of the archive.
C3_ImagesAreColumnMajor ==
  LoadReturned =>
    /\ ColumnMajor(outcome.value.x_train, outcome.value.y_train)
    /\ ColumnMajor(outcome.value.x_test, outcome.value.y_test)

\* the same for the splits that have two samples or more
C3_ColumnMajorFromTwoSamples ==
  LoadReturned =>
    /\ Cardinality(DOMAIN outcome.value.y_train) >= 2 =>
         ColumnMajor(outcome.value.x_train, outcome.value.y_train)
    /\ Cardinality(DOMAIN outcome.value.y_test) >= 2 =>
         ColumnMajor(outcome.value.x_test, outcome.value.y_test)

Hits ==
  {i \in DOMAIN received :
     /\ received[i].kind = "scores"
     /\ received[i].lowest_best = y_eval[sent[i].index]}

EspOp == args.op = "eval_serving_performance"
EspAllProcessed ==
  /\ EspOp
  /\ args.n_examples > 0
  /\ \/ pc = "esp_loop" /\ idx = args.n_examples
     \/ pc = "done" /\ outcome.kind = "return"

\* C4: once eval_serving_performance has processed all its n_examples > 0
\* samples, acc is the number of samples whose label is the lowest index of
\* the greatest score returned for them, and the accuracy reported is that
\* number over n_examples.
C4_AccCountsTheHits ==
  EspAllProcessed =>
    /\ Len(received) = args.n_examples
    /\ acc = Cardinality(Hits)
    /\ pc = "done" =>
         /\ outcome.accuracy.num = Cardinality(Hits)
         /\ outcome.accuracy.den = args.n_examples

C4_Witness ==
  /\ EspAllProcessed
  /\ pc = "done"
  /\ args.n_examples = 2
  /\ acc = 1
  /\ received[1].lowest_best = 0
  /\ y_eval[sent[1].index] = 0
  /\ received[2].lowest_best = 0
  /\ y_eval[sent[2].index] = 1

EspReturned ==
  /\ EspOp
  /\ pc = "done"
  /\ outcome.kind = "return"

\* C5: when eval_serving_performance returns (0 < n_examples <= size of the
\* split), the sampled indices are pairwise distinct and inside the split,
\* request i carried sampled index i and no other request was sent, all
\* requests used the protocol the flag selects, and the returned list has
\* n_examples latencies, the i-th being the one measured for request i.
C5_OneRequestPerSample ==
  EspReturned =>
    /\ 0 < args.n_examples /\ args.n_examples <= n_eval
    /\ Len(eval_img_indices) = args.n_examples
    /\ \A i, j \in DOMAIN eval_img_indices :
         i # j => eval_img_indices[i] # eval_img_indices[j]
    /\ \A i \in DOMAIN eval_img_indices : eval_img_indices[i] \in 0..(n_eval - 1)
    /\ Len(sent) = args.n_examples
    /\ \A i \in DOMAIN sent :
         /\ sent[i].index = eval_img_indices[i]
         /\ sent[i].protocol = (IF args.use_graphpipe THEN "B" ELSE "A")
    /\ Len(outcome.value) = args.n_examples
    /\ \A i \in DOMAIN outcome.value : outcome.value[i] = received[i].elapsed

C5_Witness ==
  /\ EspReturned
  /\ args.n_examples = 2
  /\ args.use_graphpipe
  /\ eval_img_indices = <<1, 0>>
  /\ outcome.value = <<0, 1>>

TpOp == args.op = "eval_throughput"
TpRunning == TpOp /\ pc \in {"tp_loop", "tp_wait"}
TpReturned == TpOp /\ pc = "done" /\ outcome.kind = "return"
Completed == Cardinality({i \in DOMAIN received : received[i].kind = "scores"})

\* C6: while eval_throughput loops, num_reqs is batch_size times the number
\* of requests completed; what it returns is that counter, batch_size times
\* the number of requests sent, and the counter over the duration.
C6_CounterAndRate ==
  /\ TpRunning => num_reqs = args.batch_size * Completed
  /\ TpReturned =>
       /\ args.duration > 0
       /\ Len(sent) = Completed
       /\ outcome.value = args.batch_size * Len(sent)
       /\ outcome.reqs_per_second.num = outcome.value
       /\ outcome.reqs_per_second.den = args.duration

C6_Witness ==
  /\ TpReturned
  /\ args.batch_size = 2
  /\ args.duration = 1
  /\ args.use_graphpipe
  /\ outcome.value = 6

TpRequestFailed ==
  /\ TpOp
  /\ pc = "done"
  /\ outcome.kind = "raise"
  /\ outcome.error \in {"ConnectionError", "KeyError"}

\* the loop has been left by its test: the totals are returned, or, for
\* duration = 0, the rate has divided by zero
TpLoopLeft ==
  \/ TpReturned
  \/ /\ TpOp
     /\ pc = "done"
     /\ args.duration = 0
     /\ outcome = [kind |-> "raise", error |-> "ZeroDivisionError"]

C8_ZeroExamplesDividesByZero ==
  (EspOp /\ args.n_examples = 0 /\ Count(events, "sample") = 1) =>
    /\ sent = <<>>
    /\ pc = "done" => outcome = [kind |-> "raise", error |-> "ZeroDivisionError"]
    /\ outcome.kind # "return"

C8_Witness ==
  /\ EspOp
  /\ args.n_examples = 0
  /\ n_eval > 0
  /\ pc = "done"
  /\ outcome.kind = "raise"
  /\ outcome.error = "ZeroDivisionError"

\* C9: in eval_serving_performance and in eval_throughput a response
\* without the 'predictions' field is the last thing the call handles: the
\* call has ended there with KeyError, without a value, and the request it
\* answered is the last one sent.
C9_MalformedResponseIsFatal ==
  \A i \in DOMAIN received :
    received[i].kind = "no_predictions" =>
      /\ EspOp \/ TpOp
      /\ i = Len(received)
      /\ Len(sent) = i
      /\ pc = "done"
      /\ outcome = [kind |-> "raise", error |-> "KeyError"]

C9_Witness ==
  /\ TpOp
  /\ pc = "done"
  /\ Len(sent) = 2
  /\ received[2].kind = "no_predictions"
  /\ outcome.kind = "raise"

Carried == {<<k, p>> \in (DOMAIN sent) \X (0..(n_eval - 1)) :
              \E q \in DOMAIN sent[k].batch : sent[k].batch[q] = p}

\* C10: request k (from 0) of eval_throughput over n_eval samples carries,
\* in dataset order, the positions from k * batch_size up to
\* min((k + 1) * batch_size, n_eval) - 1 and nothing else, so no position is
\* carried twice and, from k * batch_size >= n_eval on, a request carries
\* nothing, while num_reqs grows by batch_size with every request completed.
C10_BatchesAreContiguous ==
  TpOp =>
    /\ \A k \in 0..(Len(sent) - 1) :
         LET b == sent[k + 1].batch
             lo == k * args.batch_size
             hi == Min((k + 1) * args.batch_size, n_eval) - 1
         IN  /\ Len(b) = Max(hi - lo + 1, 0)
             /\ \A q \in DOMAIN b : b[q] = lo + q - 1
             /\ lo >= n_eval => b = <<>>
    /\ \A k1, k2 \in DOMAIN sent : \A q1 \in DOMAIN sent[k1].batch :
         \A q2 \in DOMAIN sent[k2].batch :
           sent[k1].batch[q1] = sent[k2].batch[q2] => k1 = k2
    /\ pc \in {"tp_loop", "tp_wait"} => num_reqs = args.batch_size * Completed
    /\ TpReturned => outcome.value = args.batch_size * Len(sent)

C10_Witness ==
  /\ TpReturned
  /\ n_eval = 2
  /\ args.batch_size = 2
  /\ Len(sent) = 3
  /\ sent[2].batch = <<>>
  /\ outcome.value = 6
  /\ Cardinality(Carried) = 2

====
